---- MODULE Spec2Model ----
(***************************************************************************)
(* Model of serve-web.py: the Alfred static web server.                    *)
(*                                                                         *)
(* A request path is a sequence of tokens: "/" is the separator, a name    *)
(* token ("web", "api", "d", "f") is a maximal run of characters without    *)
(* "/" or "?", and "?q" is a query string.  str.startswith and str.replace *)
(* on the literals '/web/' and '/api/' act on such a sequence exactly as    *)
(* they act on the characters, because an occurrence of '/web/' in the      *)
(* text is an occurrence of the tokens "/", "web", "/" and conversely.      *)
(***************************************************************************)
EXTENDS Integers, Sequences, FiniteSets, TLC

VARIABLES
    pc,          \* position of the main program (module level, lines 39-49)
    stdout,      \* lines printed so far
    port,        \* module global PORT
    directory,   \* module global DIRECTORY
    portBusy,    \* environment: another process already listens on the port
    sock,        \* the server's listening socket: "none", "listening", "closed"
    boundPort,   \* the port the socket is bound to, 0 when it is not bound
    bindCalls,   \* number of bind attempts made
    exc,         \* exception that left the program, "none" when there is none
    intAt,       \* where the interrupt signal was delivered, "none" before it
    backlog,     \* connections waiting in the kernel's accept queue, oldest first
    arrived,     \* number of connections that have arrived so far
    accepted,    \* ids of the connections accepted so far, in order
    active,      \* handler instances whose request is being processed
    log,         \* completed exchanges, in order of completion
    dropped      \* ids of connections closed without a response

vars == <<pc, stdout, port, directory, portBusy, sock, boundPort, bindCalls,
          exc, intAt, backlog, arrived, accepted, active, log, dropped>>

-----------------------------------------------------------------------------
(* Bounds *)

\* longest request path, in segments
MaxSegs == 4
\* connections that arrive during one run of the server
MaxConn == 3

-----------------------------------------------------------------------------
(* Program constants *)

PORT == 8080
DIRECTORY == "Sources/GUI/Resources"

\* the dict built in do_POST
response == << <<"error", "Swift backend not running. Use CLI instead: swift run alfred">> >>

WebPrefix == <<"/", "web", "/">>
ApiPrefix == <<"/", "api", "/">>

-----------------------------------------------------------------------------
(* Strings *)

\* str.startswith
StartsWith(s, prefix) ==
    /\ Len(s) >= Len(prefix)
    /\ SubSeq(s, 1, Len(prefix)) = prefix

RECURSIVE StrReplace(_, _, _)
\* str.replace(old, new): every non-overlapping occurrence, left to right
StrReplace(s, old, new) ==
    IF s = <<>> THEN <<>>
    ELSE IF StartsWith(s, old)
         THEN new \o StrReplace(SubSeq(s, Len(old) + 1, Len(s)), old, new)
         ELSE <<Head(s)>> \o StrReplace(Tail(s), old, new)

\* json.dumps of a str without characters that need escaping
JsonStr(s) == "\"" \o s \o "\""

\* json.dumps of a dict with one str key and str value, default separators;
\* .encode() of the ASCII result is the same text
JsonDumps(d) == "{" \o JsonStr(d[1][1]) \o ": " \o JsonStr(d[1][2]) \o "}"

-----------------------------------------------------------------------------
(* Requests *)

Segs == {"web", "api", "d", "f", ""}
Commands == {"GET", "HEAD", "POST", "PUT"}
Bodies == {"", "{}"}

RECURSIVE JoinSegs(_)
\* "/" before every segment; an empty segment gives two adjacent "/"
JoinSegs(segs) ==
    IF segs = <<>> THEN <<>>
    ELSE (IF Head(segs) = "" THEN <<"/">> ELSE <<"/", Head(segs)>>)
         \o JoinSegs(Tail(segs))

\* the request path made of the segments, a trailing "/" and a query string
MkPath(segs, trailing, query) ==
    JoinSegs(segs)
    \o (IF trailing \/ segs = <<>> THEN <<"/">> ELSE <<>>)
    \o (IF query THEN <<"?q">> ELSE <<>>)

SegLists == UNION {[1..n -> Segs] : n \in 0..MaxSegs}

\* the values of self.path a handler starts with: parse_request reduces
\* leading slashes of the request target to one before the handler runs
IsParsedPath(p) == ~StartsWith(p, <<"/", "/">>)

\* a request as parse_request leaves it in the handler: command, path, whether
\* it carries an If-Modified-Since header (and no If-None-Match) whose date is
\* not before the file's modification time, and the body the client sent
Request(c, p, i, b) == [command |-> c, path |-> p, ims |-> i, body |-> b]

\* the conditional header matters to GET and HEAD, a body comes with POST
IsRequest(r) ==
    /\ IsParsedPath(r.path)
    /\ r.ims => r.command \in {"GET", "HEAD"}
    /\ r.body # "" => r.command = "POST"

-----------------------------------------------------------------------------
(* The served directory *)

Dirs == {<<>>, <<"d">>, <<"d", "web">>}
Files == {<<"f">>, <<"d", "f">>, <<"d", "web", "f">>, <<"d", "web", "index.html">>}

\* os.path.isdir, os.path.isfile under DIRECTORY
IsDir(words) == words \in Dirs
IsFile(words) == words \in Files

-----------------------------------------------------------------------------
(* http.server, as the handler class inherits it *)

Header(name, value) == <<name, <<value>>>>
NoBody == [kind |-> "none", of |-> <<>>]

\* the part of a path before its query string
RECURSIVE PathPart(_)
PathPart(path) ==
    IF path = <<>> \/ Head(path) = "?q" THEN <<>>
    ELSE <<Head(path)>> \o PathPart(Tail(path))

QueryPart(path) == SubSeq(path, Len(PathPart(path)) + 1, Len(path))

EndsWithSlash(s) == s # <<>> /\ s[Len(s)] = "/"

\* SimpleHTTPRequestHandler.translate_path: drop the query, keep the non-empty
\* words, remember a trailing slash
translate_path(path) ==
    LET pp == PathPart(path)
    IN  [words    |-> SelectSeq(pp, LAMBDA t : t # "/"),
         trailing |-> EndsWithSlash(pp)]

\* urllib.parse.urlsplit(path).path: text after '//' up to the next '/' is a
\* network location, not part of the path
UrlSplitPath(path) ==
    LET pp == PathPart(path)
    IN  IF StartsWith(pp, <<"/", "/">>)
        THEN LET rest == SubSeq(pp, 3, Len(pp))
             IN  IF rest # <<>> /\ Head(rest) # "/" THEN Tail(rest) ELSE rest
        ELSE pp

\* the network location urlsplit finds, with its '//', empty when there is none
UrlSplitNetloc(path) ==
    LET pp == PathPart(path)
    IN  IF StartsWith(pp, <<"/", "/">>) /\ Len(pp) > 2 /\ pp[3] # "/"
        THEN SubSeq(pp, 1, 3) ELSE <<>>

\* send_head's redirect target: urlunsplit of the parts with '/' added to the path
RedirectLocation(path) ==
    UrlSplitNetloc(path) \o UrlSplitPath(path) \o <<"/">> \o QueryPart(path)

\* SimpleHTTPRequestHandler.guess_type
guess_type(words) ==
    IF words # <<>> /\ words[Len(words)] = "index.html"
    THEN "text/html" ELSE "application/octet-stream"

\* BaseHTTPRequestHandler.send_error: no body for HEAD
send_error(command, code, message) ==
    [status  |-> code,
     message |-> message,
     headers |-> <<Header("Connection", "close"),
                   Header("Content-Type", "text/html;charset=utf-8"),
                   Header("Content-Length", "len")>>,
     body    |-> IF command = "HEAD" THEN NoBody
                 ELSE [kind |-> "error", of |-> <<message>>]]

\* SimpleHTTPRequestHandler.send_head followed by the copy of the file
\* (do_GET) or not (do_HEAD); the directory is readable
send_head(command, path, ims) ==
    LET fs     == translate_path(path)
        isdir  == IsDir(fs.words)
        index  == fs.words \o <<"index.html">>
        useidx == isdir /\ IsFile(index)
        target == IF useidx THEN index ELSE fs.words
    IN  IF isdir /\ ~EndsWithSlash(UrlSplitPath(path))
        THEN [status  |-> 301,
              message |-> "Moved Permanently",
              headers |-> <<<<"Location", RedirectLocation(path)>>,
                            Header("Content-Length", "0")>>,
              body    |-> NoBody]
        ELSE IF isdir /\ ~useidx
        THEN [status  |-> 200,
              message |-> "OK",
              headers |-> <<Header("Content-type", "text/html; charset=utf-8"),
                            Header("Content-Length", "len")>>,
              body    |-> IF command = "HEAD" THEN NoBody
                          ELSE [kind |-> "listing", of |-> fs.words]]
        ELSE IF (~useidx /\ fs.trailing) \/ ~IsFile(target)
        THEN send_error(command, 404, "File not found")
        ELSE IF ims
        THEN [status |-> 304, message |-> "Not Modified",
              headers |-> <<>>, body |-> NoBody]
        ELSE [status  |-> 200,
              message |-> "OK",
              headers |-> <<Header("Content-type", guess_type(target)),
                            Header("Content-Length", "len"),
                            Header("Last-Modified", "mtime")>>,
              body    |-> IF command = "HEAD" THEN NoBody
                          ELSE [kind |-> "file", of |-> target]]

-----------------------------------------------------------------------------
(* AlfredHTTPRequestHandler *)

\* path kept on the class: a handler starts with the path the last one ended with
NewHandlerSharedPath(conn) ==
    [id |-> conn.id, req |-> conn.req,
     path |-> IF log # <<>> THEN log[Len(log)].path ELSE conn.req.path]

\* finish_request: a new handler instance for each accepted connection
NewHandler(conn) == [id |-> conn.id, req |-> conn.req, path |-> conn.req.path]

\* do_GET line 23: self.path.replace('/web/', '/')
RewritePath(path) == StrReplace(path, WebPrefix, <<"/">>)

\* what a handler has done when it returns: the response written, the value
\* of self.path, whether rfile was read, requests made to a backend
Outcome(path, resp) ==
    [path |-> path, resp |-> resp, rfile_read |-> FALSE, upstream |-> 0]

\* do_GET testing the prefix '/web' without its trailing slash
get_outcome_loose_prefix(h) ==
    IF StartsWith(h.path, <<"/", "web">>)
    THEN LET path == RewritePath(h.path)
         IN  Outcome(path, send_head("GET", path, h.req.ims))
    ELSE Outcome(h.path, send_error("GET", 404, "Not found"))

\* do_GET letting the failure to open a missing file escape as a 500
get_outcome_unhandled_missing(h) ==
    IF StartsWith(h.path, WebPrefix)
    THEN LET path == RewritePath(h.path)
             words == translate_path(path).words
         IN  IF ~IsFile(words) /\ ~IsDir(words)
             THEN Outcome(path, send_error("GET", 500, "Internal Server Error"))
             ELSE Outcome(path, send_head("GET", path, h.req.ims))
    ELSE Outcome(h.path, send_error("GET", 404, "Not found"))

get_outcome(h) ==
    IF StartsWith(h.path, WebPrefix)
    THEN LET path == RewritePath(h.path)
         IN  Outcome(path, send_head("GET", path, h.req.ims))
    ELSE Outcome(h.path, send_error("GET", 404, "Not found"))

\* inherited SimpleHTTPRequestHandler.do_HEAD: the class does not override it
head_outcome(h) == Outcome(h.path, send_head("HEAD", h.path, h.req.ims))

\* do_POST writing str(response) instead of json.dumps(response)
post_outcome_repr(h) ==
    IF StartsWith(h.path, ApiPrefix)
    THEN Outcome(h.path,
                 [status  |-> 503,
                  message |-> "Service Unavailable",
                  headers |-> <<Header("Content-type", "application/json")>>,
                  body    |-> [kind |-> "json",
                               of |-> <<"{'" \o response[1][1] \o "': '"
                                        \o response[1][2] \o "'}">>]])
    ELSE Outcome(h.path, send_error("POST", 404, "Not found"))

\* do_POST answering every path with the stub
post_outcome_any_path(h) ==
    Outcome(h.path,
            [status  |-> 503,
             message |-> "Service Unavailable",
             headers |-> <<Header("Content-type", "application/json")>>,
             body    |-> [kind |-> "json", of |-> <<JsonDumps(response)>>]])

post_outcome(h) ==
    IF StartsWith(h.path, ApiPrefix)
    THEN Outcome(h.path,
                 [status  |-> 503,
                  message |-> "Service Unavailable",
                  headers |-> <<Header("Content-type", "application/json")>>,
                  body    |-> [kind |-> "json", of |-> <<JsonDumps(response)>>]])
    ELSE Outcome(h.path, send_error("POST", 404, "Not found"))

\* handle_one_request when the class has no do_<command> method
unsupported_outcome(h) ==
    Outcome(h.path, send_error(h.req.command, 501, "Unsupported method"))

\* the handler returns: the exchange is complete, shutdown_request closes the
\* connection and the serve loop goes back to select
Finish(h, out) ==
    /\ h \in active
    /\ log' = Append(log, [id |-> h.id, req |-> h.req, path |-> out.path,
                           resp |-> out.resp, rfile_read |-> out.rfile_read,
                           upstream |-> out.upstream])
    /\ active' = active \ {h}
    /\ pc' = "select"
    /\ UNCHANGED <<stdout, port, directory, portBusy, sock, boundPort, bindCalls,
                   exc, intAt, backlog, arrived, accepted, dropped>>

do_GET(h) == h.req.command = "GET" /\ Finish(h, get_outcome(h))

do_HEAD(h) == h.req.command = "HEAD" /\ Finish(h, head_outcome(h))

do_POST(h) == h.req.command = "POST" /\ Finish(h, post_outcome(h))

unsupported(h) ==
    /\ h.req.command \notin {"GET", "HEAD", "POST"}
    /\ Finish(h, unsupported_outcome(h))

HandleGET == \E h \in active : do_GET(h)
HandleHEAD == \E h \in active : do_HEAD(h)
HandlePOST == \E h \in active : do_POST(h)
HandleUnsupported == \E h \in active : unsupported(h)

-----------------------------------------------------------------------------
(* The main program and socketserver.TCPServer *)

StartupLines ==
    <<"Starting server on http://localhost:8080",
      "Web interface: http://localhost:8080/web/index-notion.html",
      "Note: API calls won't work - this only serves static files",
      "For full functionality, run: swift run alfred",
      "">>

ShutdownLine == "\nShutting down..."

\* ThreadingMixIn.process_request: the handler runs in a thread of its own
AfterAcceptThreaded == "select"

\* TCPServer.process_request runs the handler in the calling thread: the
\* serve loop is in the handler until it returns
AfterAccept == "handle"

\* lines 39-43
PrintBanner ==
    /\ pc = "start"
    /\ stdout' = stdout \o StartupLines
    /\ pc' = "bind"
    /\ UNCHANGED <<port, directory, portBusy, sock, boundPort, bindCalls, exc,
                   intAt, backlog, arrived, accepted, active, log, dropped>>

\* a busy port answered by binding the next port
TCPServer_init_fallback ==
    /\ pc = "bind"
    /\ bindCalls' = bindCalls + (IF portBusy THEN 2 ELSE 1)
    /\ sock' = "listening"
    /\ boundPort' = IF portBusy THEN port + 1 ELSE port
    /\ pc' = "with"
    /\ UNCHANGED <<stdout, port, directory, portBusy, exc, intAt, backlog, arrived,
                   accepted, active, log, dropped>>

\* line 45, TCPServer.__init__: bind and listen; on failure the socket is
\* closed and the OSError propagates out of the program
TCPServer_init ==
    /\ pc = "bind"
    /\ bindCalls' = bindCalls + 1
    /\ IF portBusy
       THEN /\ sock' = "closed"
            /\ exc' = "OSError"
            /\ pc' = "failed"
            /\ UNCHANGED boundPort
       ELSE /\ sock' = "listening"
            /\ boundPort' = port
            /\ pc' = "with"
            /\ UNCHANGED exc
    /\ UNCHANGED <<stdout, port, directory, portBusy, intAt, backlog, arrived,
                   accepted, active, log, dropped>>

\* lines 45-47: enter the with block and the try, call serve_forever
serve_forever ==
    /\ pc = "with"
    /\ pc' = "select"
    /\ UNCHANGED <<stdout, port, directory, portBusy, sock, boundPort, bindCalls,
                   exc, intAt, backlog, arrived, accepted, active, log, dropped>>

\* a client connects and sends a request: the kernel queues the connection
Connect(r) ==
    /\ sock = "listening"
    /\ arrived < MaxConn
    /\ arrived' = arrived + 1
    /\ backlog' = Append(backlog, [id |-> arrived + 1, req |-> r])
    /\ UNCHANGED <<pc, stdout, port, directory, portBusy, sock, boundPort,
                   bindCalls, exc, intAt, accepted, active, log, dropped>>

\* serve_forever: select reports the listening socket readable, get_request
\* accepts the oldest connection, finish_request builds the handler
Accept ==
    /\ pc = "select"
    /\ backlog # <<>>
    /\ accepted' = Append(accepted, Head(backlog).id)
    /\ active' = active \cup {NewHandler(Head(backlog))}
    /\ backlog' = Tail(backlog)
    /\ pc' = AfterAccept
    /\ UNCHANGED <<stdout, port, directory, portBusy, sock, boundPort, bindCalls,
                   exc, intAt, arrived, log, dropped>>

\* the handler raises an Exception (the client went away): handle_error
\* reports it, shutdown_request closes the connection, the loop goes on
HandlerError ==
    \E h \in active :
        /\ dropped' = dropped \cup {h.id}
        /\ active' = active \ {h}
        /\ pc' = "select"
        /\ UNCHANGED <<stdout, port, directory, portBusy, sock, boundPort,
                       bindCalls, exc, intAt, backlog, arrived, accepted, log>>

\* SIGINT: KeyboardInterrupt is raised in the main thread where it stands.
\* Before the try block nothing catches it; in a handler
\* _handle_request_noblock closes the connection and re-raises
KeyboardInterrupt ==
    /\ intAt = "none"
    /\ pc \in {"start", "bind", "with", "select", "handle"}
    /\ intAt' = pc
    /\ pc' = CASE pc \in {"start", "bind"} -> "failed"
               [] pc = "with" -> "unwind"
               [] OTHER -> "except"
    /\ exc' = IF pc \in {"start", "bind", "with"} THEN "KeyboardInterrupt" ELSE exc
    /\ IF pc = "handle"
       THEN /\ dropped' = dropped \cup {h.id : h \in active}
            /\ active' = {}
       ELSE UNCHANGED <<dropped, active>>
    /\ UNCHANGED <<stdout, port, directory, portBusy, sock, boundPort, bindCalls,
                   backlog, arrived, accepted, log>>

\* lines 48-49
ExceptKeyboardInterrupt ==
    /\ pc = "except"
    /\ stdout' = Append(stdout, ShutdownLine)
    /\ pc' = "exit"
    /\ UNCHANGED <<port, directory, portBusy, sock, boundPort, bindCalls, exc,
                   intAt, backlog, arrived, accepted, active, log, dropped>>

\* the server used without the with statement: nothing closes the socket
server_close_missing ==
    /\ pc \in {"exit", "unwind"}
    /\ pc' = IF pc = "exit" THEN "done" ELSE "failed"
    /\ UNCHANGED <<stdout, port, directory, portBusy, sock, boundPort, bindCalls,
                   exc, intAt, backlog, arrived, accepted, active, log, dropped>>

\* leaving the with block, normally or by an exception: TCPServer.__exit__
\* calls server_close; connections still queued are reset
server_close ==
    /\ pc \in {"exit", "unwind"}
    /\ sock' = "closed"
    /\ dropped' = dropped \cup {backlog[i].id : i \in 1..Len(backlog)}
    /\ backlog' = <<>>
    /\ pc' = IF pc = "exit" THEN "done" ELSE "failed"
    /\ UNCHANGED <<stdout, port, directory, portBusy, boundPort, bindCalls, exc,
                   intAt, arrived, accepted, active, log>>

-----------------------------------------------------------------------------
(* Specifications *)

P(segs) == MkPath(segs, FALSE, FALSE)

\* the requests clients send in the runs of the whole server
SampleRequests ==
    {Request("GET", P(<<"web", "f">>), FALSE, ""),
     Request("GET", P(<<"web", "f">>), TRUE, ""),
     Request("GET", P(<<"web", "d">>), FALSE, ""),
     Request("GET", P(<<"f">>), FALSE, ""),
     Request("HEAD", P(<<"f">>), FALSE, ""),
     Request("POST", MkPath(<<"api", "f">>, FALSE, TRUE), FALSE, "{}"),
     Request("POST", P(<<"api">>), FALSE, ""),
     Request("PUT", P(<<"f">>), FALSE, "")}

Init ==
    /\ pc = "start"
    /\ stdout = <<>>
    /\ port = PORT
    /\ directory = DIRECTORY
    /\ portBusy \in BOOLEAN
    /\ sock = "none"
    /\ boundPort = 0
    /\ bindCalls = 0
    /\ exc = "none"
    /\ intAt = "none"
    /\ backlog = <<>>
    /\ arrived = 0
    /\ accepted = <<>>
    /\ active = {}
    /\ log = <<>>
    /\ dropped = {}

Next ==
    \/ PrintBanner
    \/ TCPServer_init
    \/ serve_forever
    \/ \E r \in SampleRequests : Connect(r)
    \/ Accept
    \/ HandleGET
    \/ HandleHEAD
    \/ HandlePOST
    \/ HandleUnsupported
    \/ HandlerError
    \/ KeyboardInterrupt
    \/ ExceptKeyboardInterrupt
    \/ server_close

\* the whole server
Spec == Init /\ [][Next]_vars

\* the main thread keeps running: once the interrupt is caught, the print and
\* the release of the socket are not held up by anything
FairSpec == Spec /\ WF_vars(ExceptKeyboardInterrupt) /\ WF_vars(server_close)

\* one request, any of up to MaxSegs segments, in the hands of a new handler
\* instance of the running server
HandlerInit ==
    /\ pc = "handle"
    /\ stdout = StartupLines
    /\ port = PORT
    /\ directory = DIRECTORY
    /\ portBusy = FALSE
    /\ sock = "listening"
    /\ boundPort = PORT
    /\ bindCalls = 1
    /\ exc = "none"
    /\ intAt = "none"
    /\ backlog = <<>>
    /\ arrived = 1
    /\ accepted = <<1>>
    /\ \E c \in Commands, s \in SegLists, t \in BOOLEAN, q \in BOOLEAN,
          i \in BOOLEAN, b \in Bodies :
            LET r == Request(c, MkPath(s, t, q), i, b)
            IN  /\ IsRequest(r)
                /\ active = {NewHandler([id |-> 1, req |-> r])}
    /\ log = <<>>
    /\ dropped = {}

HandlerNext ==
    \/ HandleGET
    \/ HandleHEAD
    \/ HandlePOST
    \/ HandleUnsupported

\* the request handler on every request of up to MaxSegs segments
HandlerSpec == HandlerInit /\ [][HandlerNext]_vars

-----------------------------------------------------------------------------
(* Properties *)

Exchanges == {log[i] : i \in 1..Len(log)}

IsGetWeb(e) == e.req.command = "GET" /\ StartsWith(e.req.path, WebPrefix)
IsPostApi(e) == e.req.command = "POST" /\ StartsWith(e.req.path, ApiPrefix)

\* the response carries content or metadata of the served directory
ServesRoot(resp) ==
    \/ resp.body.kind \in {"file", "listing"}
    \/ \E i \in 1..Len(resp.headers) : resp.headers[i][1] = "Last-Modified"

StubBody ==
    [kind |-> "json",
     of |-> <<"{\"error\": \"Swift backend not running. Use CLI instead: swift run alfred\"}">>]

C2_StripsLeadingWebOnly ==
    \A e \in Exchanges :
        IsGetWeb(e) =>
            LET stripped == SubSeq(e.req.path, 3, Len(e.req.path))
            IN  /\ e.path = stripped
                /\ e.resp = send_head("GET", stripped, e.req.ims)

\* C3: every GET whose path does not start with '/web/' is answered 404
\* "Not found", and nothing of the root directory is served.
C3_GetOutsideWeb404 ==
    \A e \in Exchanges :
        (e.req.command = "GET" /\ ~StartsWith(e.req.path, WebPrefix)) =>
            /\ e.resp.status = 404
            /\ e.resp.message = "Not found"
            /\ ~ServesRoot(e.resp)

\* a GET of a file that exists under the root, asked for without '/web/'
C3_Witness ==
    \E e \in Exchanges :
        /\ e.req.command = "GET"
        /\ e.req.path = <<"/", "d", "/", "f">>
        /\ IsFile(translate_path(e.req.path).words)
        /\ e.resp.status = 404

\* C4: every POST whose path does not start with '/api/' is answered 404
\* "Not found" and never with the stub.
C4_PostOutsideApi404 ==
    \A e \in Exchanges :
        (e.req.command = "POST" /\ ~StartsWith(e.req.path, ApiPrefix)) =>
            /\ e.resp.status = 404
            /\ e.resp.message = "Not found"
            /\ e.resp.body # StubBody

\* a POST of '/api' without the slash
C4_Witness ==
    \E e \in Exchanges :
        /\ e.req.command = "POST"
        /\ e.req.path = <<"/", "api">>
        /\ e.resp.status = 404

\* C5: every request that is neither a GET under '/web/' nor a POST under
\* '/api/', whatever its method, is answered 404 and never with content or
\* metadata of the root directory.
C5_EverythingElse404 ==
    \A e \in Exchanges :
        (~IsGetWeb(e) /\ ~IsPostApi(e)) =>
            /\ e.resp.status = 404
            /\ ~ServesRoot(e.resp)

\* the path handed to the static-file server names no file and no directory
NamesNothing(e) ==
    LET words == translate_path(e.path).words
    IN  ~IsFile(words) /\ ~IsDir(words)

Position(seq, x) == CHOOSE i \in 1..Len(seq) : seq[i] = x

\* C7: at most one request is being processed; a connection is accepted only
\* when every connection accepted before it has been processed to its end;
\* exchanges complete in the order in which the connections were accepted.
C7_OneAtATime ==
    /\ Cardinality(active) <= 1
    /\ \A i \in 1..(Len(accepted) - 1) :
            \/ \E e \in Exchanges : e.id = accepted[i]
            \/ accepted[i] \in dropped
    /\ \A i, j \in 1..Len(log) :
            i < j => Position(accepted, log[i].id) < Position(accepted, log[j].id)

\* two exchanges are complete, a third request is in a handler and the next
\* connection waits
C7_Witness ==
    /\ Len(log) = 2
    /\ Cardinality(active) = 1
    /\ Len(accepted) = 3

SameRequestLine(e1, e2) ==
    e1.req.command = e2.req.command /\ e1.req.path = e2.req.path

\* C8, as claimed: the response depends only on the method and the path of
\* the request, whatever came before it; PORT and DIRECTORY keep their values.
C8_MethodAndPathOnly ==
    /\ \A e1, e2 \in Exchanges : SameRequestLine(e1, e2) => e1.resp = e2.resp
    /\ port = PORT
    /\ directory = DIRECTORY

\* C8, amended: the response depends only on the method, the path and the
\* If-Modified-Since condition of the request, whatever came before it; PORT
\* and DIRECTORY keep their values.
C8_Stateless ==
    /\ \A e1, e2 \in Exchanges :
            (SameRequestLine(e1, e2) /\ e1.req.ims = e2.req.ims) => e1.resp = e2.resp
    /\ port = PORT
    /\ directory = DIRECTORY

\* the same request was answered twice, with a 404 or a 503 in between
C8_Witness ==
    \E i, j, k \in 1..Len(log) :
        /\ i < j /\ j < k
        /\ log[i].req = log[k].req
        /\ log[i].resp.status = 200
        /\ log[j].resp.status \in {404, 503}

Terminated == pc \in {"done", "failed"}

C10_PortBusyFails ==
    portBusy =>
        /\ pc \in {"start", "bind", "failed"}
        /\ bindCalls <= 1
        /\ bindCalls = 1 => (pc = "failed" /\ exc = "OSError")
        /\ sock # "listening"
        /\ boundPort = 0
        /\ accepted = <<>>
        /\ log = <<>>

\* the bind failed after the banner was printed
C10_Witness ==
    /\ portBusy
    /\ pc = "failed"
    /\ exc = "OSError"
    /\ stdout = StartupLines

====
